---- MODULE Spec2Model ----
(***************************************************************************)
(* The dispatch engine of whatsapp.client.WhatsappClient: the command      *)
(* registry, the listener lists, the error policy (__handle_error) and the *)
(* polling loop of run(), and send_file().                                 *)
(*                                                                         *)
(* Texts (Python str) are sequences of atoms.  An atom is one character    *)
(* ("!", " ", "\n", "f", ...) or a fixed fragment of text that contains no *)
(* whitespace-sensitive structure the engine looks at, written as one      *)
(* string ("Command not found!").  The line break is the atom "\n".        *)
(*                                                                         *)
(* The browser (selenium) is the environment: whether the send input is    *)
(* found, what get_last_message() returns, whether the logout of stop()    *)
(* finds its buttons, and what a user callback does when it is called are  *)
(* choices of the environment.  send_message() types its lines best-effort *)
(* (a StaleElementReferenceException is swallowed per line and changes no  *)
(* control flow): `sent' is the sequence of lines handed to the send input.*)
(* stop() closes the browser when its logout succeeds; what the closed     *)
(* browser answers to the calls that follow in the same cycle is not       *)
(* modelled.  send_file() is modelled as a call of its own, step by step.  *)
(***************************************************************************)
EXTENDS Naturals, Sequences, FiniteSets

\* ------------------------------------------------------------------ bounds
MaxListeners == 2       \* listeners (message and loop) registered at most

\* ------------------------------------------------------------------- texts
help == <<"h", "e", "l", "p">>
foo == <<"f", "o", "o">>
bangfoo == <<"!">> \o foo
bar == <<"b", "a", "r">>
baz == <<"b", "a", "z">>
Sp == <<" ">>
Bang == <<"!">>
Empty == <<>>

\* Python's None where a str is expected (help_message=None).
None == <<"<None>">>

\* The help text of the built-in command (client.py line 68).
BuiltinHelp == <<"Returns help messages">>

\* The commands the caller registers: <<name, handler, help_message>>, with
\* and without a help message, a name registered twice with two handlers, a
\* name that holds the prefix, and the built-in's name.
CmdNames == {help, foo, bangfoo}
Usage == <<"usage">>
Registrations ==
    { <<foo, "h1", None>>,
      <<foo, "h2", Usage>>,
      <<bangfoo, "h1", Usage>>,
      <<help, "h2", None>> }

\* The callables given to on_message and on_loop.
MessageListeners == {"l1", "l2"}
LoopListeners == {"k1"}

\* The values command_prefix is set to.
Prefixes == {<<"!">>, <<"!", "!">>, <<>>}

\* The texts get_last_message() finds as the chat's last message.
Texts ==
    { Empty,
      <<"h", "i">>,
      Bang,
      Bang \o foo \o Sp \o bar \o Sp \o baz,
      Bang \o help,
      Bang \o help \o Sp \o foo,
      Bang \o bangfoo }

\* The texts of the runs that exercise the listeners.
ListenerTexts == {<<"h", "i">>, Bang \o help}

\* What a user callback does when called: return, call client.stop() and
\* return, register a further listener of its own kind (client.on_message(f)
\* in a message listener, client.on_loop(f) in a loop listener) and return,
\* raise from its body, or (a command handler that does not take two
\* arguments) fail to be called at all, which Python reports as a TypeError.
\* run() tells a CannotFindMessageError from the other exceptions of a
\* message listener, __process_commands a TypeError from the others.
ListenerOutcomes ==
    {"ok", "stop", "register", "Exception", "CannotFindMessageError"}
HandlerOutcomes == {"ok", "stop", "Exception", "TypeError", "signature"}

NoException == "none"

\* send_file(): the limit of the file size, in bytes (line 246)
Limit == 64000000

\* The sizes os.path.getsize() finds and the file_type values given.
FileSizes ==
    {0, 1024, 63999999, 64000000, 64000001, 64000002, 128000000}
FileTypes == {"other", "img", "pdf"}

\* No call of send_file() so far.
NoUpload == [pc |-> "idle", size |-> 0, type |-> "other", steps |-> <<>>,
             raised |-> NoException]

VARIABLES
    running,                \* self.__running
    commands,               \* self.__commands, in insertion order
    on_messages,            \* self.__on_messages
    on_loops,               \* self.__on_loops
    command_prefix,         \* self.command_prefix
    debug_exception,        \* self.debug_exception
    debug_traceback,        \* self.debug_traceback
    disable_error_handling, \* self.disable_error_handling
    last_message,           \* run(): last_message
    new_message_object,     \* run(): new_message_object, <<>> before the fetch
    pc,                     \* where the caller / run() stands
    i,                      \* position of the running listener pass
    calls,                  \* callbacks called in the current cycle, in order
    sent,                   \* lines sent to the chat in the current cycle
    errs,                   \* exceptions given to __handle_error in the cycle
    raised,                 \* the exception an API call or run() ended with
    prev_text,              \* <<t>>: text of the latest earlier successful fetch
    caught,                 \* exceptions run() itself caught in the cycle
    upload                  \* the running or last call of send_file()

vars == <<running, commands, on_messages, on_loops, command_prefix,
          debug_exception, debug_traceback, disable_error_handling,
          last_message, new_message_object, pc, i, calls, sent, errs,
          raised, prev_text, caught, upload>>

config == <<commands, on_messages, on_loops, command_prefix,
            debug_exception, debug_traceback, disable_error_handling>>

\* ---------------------------------------------------------- pure functions
IsSpace(c) == c \in {" ", "\n", "\t"}

\* s[n:] for n <= Len(s)
Drop(s, n) == SubSeq(s, n + 1, Len(s))

RECURSIVE SkipSpace(_)
SkipSpace(s) ==
    IF s # <<>> /\ IsSpace(Head(s)) THEN SkipSpace(Tail(s)) ELSE s

RECURSIVE TakeToken(_)
TakeToken(s) ==
    IF s = <<>> \/ IsSpace(Head(s)) THEN <<>>
    ELSE <<Head(s)>> \o TakeToken(Tail(s))

\* str.split(): the maximal runs of non-whitespace, in order.
RECURSIVE Split(_)
Split(s) ==
    LET t == SkipSpace(s)
    IN  IF t = <<>> THEN <<>>
        ELSE LET tok == TakeToken(t)
             IN  <<tok>> \o Split(Drop(t, Len(tok)))

RECURSIVE TakeLine(_)
TakeLine(s) ==
    IF s = <<>> \/ Head(s) = "\n" THEN <<>>
    ELSE <<Head(s)>> \o TakeLine(Tail(s))

\* str.splitlines(): the lines, without their line breaks; a final line
\* break opens no further line.
RECURSIVE SplitLines(_)
SplitLines(s) ==
    IF s = <<>> THEN <<>>
    ELSE LET line == TakeLine(s)
         IN  <<line>> \o SplitLines(Drop(s, IF Len(line) < Len(s)
                                               THEN Len(line) + 1
                                               ELSE Len(line)))

StartsWith(s, p) == Len(p) <= Len(s) /\ SubSeq(s, 1, Len(p)) = p

\* str.replace(old, ""): every non-overlapping occurrence of old removed,
\* left to right (nothing to remove when old is empty).
RECURSIVE Replace(_, _)
Replace(s, old) ==
    IF old = <<>> \/ s = <<>> THEN s
    ELSE IF StartsWith(s, old) THEN Replace(Drop(s, Len(old)), old)
    ELSE <<Head(s)>> \o Replace(Tail(s), old)

\* ---------------------------------------------------------------- registry
Entry(name, fn, helptext) == [name |-> name, fn |-> fn, help |-> helptext]

Names(cmds) == {cmds[k].name : k \in 1..Len(cmds)}

\* name in self.__commands
HasCommand(cmds, name) == name \in Names(cmds)

IndexOf(cmds, name) == CHOOSE k \in 1..Len(cmds) : cmds[k].name = name

\* self.__commands[name]
Lookup(cmds, name) == cmds[IndexOf(cmds, name)]

\* SetItem as a list would do it: the entry is added, an old one kept.
SetItemAppend(cmds, e) == Append(cmds, e)

\* self.__commands[name] = [fn, help]: a new key goes last, an old key keeps
\* its place and takes the new value.
SetItem(cmds, e) ==
    IF HasCommand(cmds, e.name)
    THEN [cmds EXCEPT ![IndexOf(cmds, e.name)] = e]
    ELSE Append(cmds, e)

\* self.__commands.pop(name) for a key that is present
PopItem(cmds, name) ==
    LET k == IndexOf(cmds, name)
    IN  SubSeq(cmds, 1, k - 1) \o SubSeq(cmds, k + 1, Len(cmds))

\* ------------------------------------------------- execution of one call
\* What a call leaves behind is threaded through a record x:
\*   running  self.__running,
\*   sent     the lines sent so far in the cycle,
\*   errs     the exceptions given to __handle_error so far in the cycle,
\*   caught   the exceptions run() caught itself so far in the cycle,
\*   exc      the exception that is propagating (NoException: none).
Context == [running |-> running, sent |-> sent, errs |-> errs,
            caught |-> caught, exc |-> NoException]

Raise(x, e) == [x EXCEPT !.exc = e]
Caught(x) == [x EXCEPT !.exc = NoException]

\* An except clause that lets the exception go on.
Rethrow(x, e) == Raise(x, e)

\* an except clause of run() that drops the exception e it caught
Swallow(x, e) == [x EXCEPT !.caught = Append(@, e)]

\* send_message(msg): one submission per line of msg; None has no
\* splitlines().
SendMessage(x, msg) ==
    IF msg = None THEN Raise(x, "AttributeError")
    ELSE [x EXCEPT !.sent = @ \o SplitLines(msg)]

\* stop(): clears the flag first, then logs out through the browser, where
\* a button that is not found raises.
Stop(x, logout_ok) ==
    LET y == [x EXCEPT !.running = FALSE]
    IN  IF logout_ok THEN y ELSE Raise(y, "NoSuchElementException")

UnknownError == <<"An unknown error occurred">>
ErrorOccurred(detail) == <<"Error occurred:", "\n", " ">> \o detail
\* traceback.format_exc(): the header, the frames, the exception's line
Traceback(exception) ==
    <<"Traceback (most recent call last):", "\n", "<frames>", "\n",
      exception, "\n">>

\* __handle_error with the re-raise outside its if: every mode re-raises.
HandleErrorReraise(x, exception, logout_ok) ==
    Raise([x EXCEPT !.errs = Append(@, exception)], exception)

\* __handle_error with debug_traceback looked at before debug_exception.
HandleErrorTracebackFirst(x, exception, logout_ok) ==
    LET y == [x EXCEPT !.errs = Append(@, exception)]
    IN  IF disable_error_handling
        THEN LET z == Stop(y, logout_ok)
             IN  IF z.exc # NoException THEN z ELSE Raise(z, exception)
        ELSE IF debug_traceback
        THEN SendMessage(y, ErrorOccurred(Traceback(exception)))
        ELSE IF debug_exception
        THEN SendMessage(y, ErrorOccurred(<<exception>>))
        ELSE SendMessage(y, UnknownError)

\* __handle_error(exception)
HandleError(x, exception, logout_ok) ==
    LET y == [x EXCEPT !.errs = Append(@, exception)]
    IN  IF disable_error_handling
        THEN LET z == Stop(y, logout_ok)
             IN  IF z.exc # NoException THEN z ELSE Raise(z, exception)
        ELSE IF debug_exception
        THEN SendMessage(y, ErrorOccurred(<<exception>>))
        ELSE IF debug_traceback
        THEN SendMessage(y, ErrorOccurred(Traceback(exception)))
        ELSE SendMessage(y, UnknownError)

\* The body of a user callback, by what it does this time.
Body(x, outcome, logout_ok) ==
    IF outcome \in {"ok", "register"} THEN x
    ELSE IF outcome = "stop" THEN Stop(x, logout_ok)
    ELSE IF outcome = "signature" THEN Raise(x, "TypeError")
    ELSE Raise(x, outcome)

\* try: listener(...) except Exception as error: self.__handle_error(error)
CallListener(x, outcome, logout_ok) ==
    LET y == Body(x, outcome, logout_ok)
    IN  IF y.exc = NoException THEN y
        ELSE HandleError(Caught(y), y.exc, logout_ok)

CommandNotFound == <<"Command not found!">>
ListOfCommands == <<"List of commands:", "\n">>

\* HelpList without the replace(): the names as registered.
RECURSIVE HelpListRaw(_, _)
HelpListRaw(cmds, prefix) ==
    IF cmds = <<>> THEN <<>>
    ELSE Head(cmds).name \o <<",", " ">> \o HelpListRaw(Tail(cmds), prefix)

\* answer = answer + f"{command.replace(self.command_prefix, '')}, ", for
\* every command in registration order
RECURSIVE HelpList(_, _)
HelpList(cmds, prefix) ==
    IF cmds = <<>> THEN <<>>
    ELSE Replace(Head(cmds).name, prefix) \o <<",", " ">>
         \o HelpList(Tail(cmds), prefix)

\* for command in self.__commands: if arguments[0] == command.replace(...)
RECURSIVE HelpFind(_, _, _)
HelpFind(cmds, prefix, arg) ==
    IF cmds = <<>> THEN <<>>
    ELSE IF arg = Replace(Head(cmds).name, prefix) THEN <<Head(cmds)>>
    ELSE HelpFind(Tail(cmds), prefix, arg)

\* __help_menu(arguments, message_obj)
HelpMenu(x, arguments) ==
    IF Len(arguments) = 0
    THEN SendMessage(x, ListOfCommands \o HelpList(commands, command_prefix))
    ELSE LET found == HelpFind(commands, command_prefix, arguments[1])
         IN  IF found # <<>> THEN SendMessage(x, found[1].help)
             ELSE SendMessage(x, CommandNotFound)

BadSignature ==
    <<"An error occurred while executing the command. Perhaps the function doesn't take 2 arguments?">>

\* __process_commands(function, arguments, message_object)
ProcessCommands(x, function, arguments, outcome, logout_ok) ==
    LET y == IF function = "help_menu" THEN HelpMenu(x, arguments)
             ELSE Body(x, outcome, logout_ok)
    IN  IF y.exc = NoException THEN y
        ELSE IF y.exc = "TypeError" THEN SendMessage(Caught(y), BadSignature)
        ELSE HandleError(Caught(y), y.exc, logout_ok)

\* ------------------------------------------------------------------- state
Init ==
    /\ running = FALSE
    /\ commands = <<Entry(help, "help_menu", BuiltinHelp)>>
    /\ on_messages = <<>>
    /\ on_loops = <<>>
    /\ command_prefix = <<"!">>
    /\ debug_exception = FALSE
    /\ debug_traceback = FALSE
    /\ disable_error_handling = FALSE
    /\ last_message = <<>>
    /\ new_message_object = <<>>
    /\ pc = "setup"
    /\ i = 0
    /\ calls = <<>>
    /\ sent = <<>>
    /\ errs = <<>>
    /\ raised = NoException
    /\ prev_text = <<>>
    /\ caught = <<>>
    /\ upload = NoUpload

engine == <<running, last_message, new_message_object, i, calls, sent, errs,
            prev_text, caught>>

\* ------------------------------------------- the caller, before run()
\* @client.command(name, help_message)(command_function)
Command(name, fn, helptext) ==
    /\ pc = "setup"
    /\ commands' = SetItem(commands, Entry(name, fn, helptext))
    /\ raised' = NoException
    /\ UNCHANGED <<upload, on_messages, on_loops, command_prefix, debug_exception,
                   debug_traceback, disable_error_handling, pc, engine>>

\* remove_command(name)
RemoveCommand(name) ==
    /\ pc = "setup"
    /\ IF HasCommand(commands, name)
       THEN commands' = PopItem(commands, name) /\ raised' = NoException
       ELSE commands' = commands /\ raised' = "CommandNotFoundError"
    /\ UNCHANGED <<upload, on_messages, on_loops, command_prefix, debug_exception,
                   debug_traceback, disable_error_handling, pc, engine>>

\* @client.on_message
OnMessage(fn) ==
    /\ pc = "setup"
    /\ Len(on_messages) + Len(on_loops) < MaxListeners
    /\ on_messages' = Append(on_messages, fn)
    /\ raised' = NoException
    /\ UNCHANGED <<upload, commands, on_loops, command_prefix, debug_exception,
                   debug_traceback, disable_error_handling, pc, engine>>

\* @client.on_loop
OnLoop(fn) ==
    /\ pc = "setup"
    /\ Len(on_messages) + Len(on_loops) < MaxListeners
    /\ on_loops' = Append(on_loops, fn)
    /\ raised' = NoException
    /\ UNCHANGED <<upload, commands, on_messages, command_prefix, debug_exception,
                   debug_traceback, disable_error_handling, pc, engine>>

\* client.command_prefix = p
SetCommandPrefix(p) ==
    /\ pc = "setup"
    /\ command_prefix' = p
    /\ raised' = NoException
    /\ UNCHANGED <<upload, commands, on_messages, on_loops, debug_exception,
                   debug_traceback, disable_error_handling, pc, engine>>

\* client.debug_exception = b
SetDebugException(b) ==
    /\ pc = "setup"
    /\ debug_exception' = b
    /\ raised' = NoException
    /\ UNCHANGED <<upload, commands, on_messages, on_loops, command_prefix,
                   debug_traceback, disable_error_handling, pc, engine>>

\* client.debug_traceback = b
SetDebugTraceback(b) ==
    /\ pc = "setup"
    /\ debug_traceback' = b
    /\ raised' = NoException
    /\ UNCHANGED <<upload, commands, on_messages, on_loops, command_prefix,
                   debug_exception, disable_error_handling, pc, engine>>

\* client.disable_error_handling = b
SetDisableErrorHandling(b) ==
    /\ pc = "setup"
    /\ disable_error_handling' = b
    /\ raised' = NoException
    /\ UNCHANGED <<upload, commands, on_messages, on_loops, command_prefix,
                   debug_exception, debug_traceback, pc, engine>>

\* ------------------------------------------------------------------ run()
Message(text, this_person) == [contents |-> text, this_person |-> this_person]

\* One call of a callback: which, with what, and what its body did.
Call(kind, fn, arguments, msg, outcome) ==
    [kind |-> kind, fn |-> fn, args |-> arguments, msg |-> msg,
     outcome |-> outcome]

\* run() up to its loop: the flag is set, the browser opened, last_message = ""
Run ==
    /\ pc = "setup"
    /\ pc' = "top"
    /\ running' = TRUE
    /\ last_message' = <<>>
    /\ raised' = NoException
    /\ UNCHANGED <<upload, config, new_message_object, i, calls, sent, errs,
                   prev_text, caught>>

\* A new cycle begins: what the model remembers of the last one is dropped.
BeginCycle ==
    /\ calls' = <<>>
    /\ sent' = <<>>
    /\ errs' = <<>>
    /\ new_message_object' = <<>>
    /\ prev_text' = IF new_message_object = <<>> THEN prev_text
                    ELSE <<new_message_object[1].contents>>

\* while self.__running: false, run() returns
RunReturns ==
    /\ pc = "top"
    /\ ~running
    /\ pc' = "returned"
    /\ UNCHANGED <<upload, config, running, last_message, new_message_object, i,
                   calls, sent, errs, raised, prev_text, caught>>

\* the send input is not on the page: sleep(5); continue
AwaitInput ==
    /\ pc = "top"
    /\ running
    /\ BeginCycle
    /\ caught' = <<"NoSuchElementException">>
    /\ UNCHANGED <<upload, config, running, last_message, pc, i, raised>>

\* A cycle that goes from the send input straight to the fetch.
LocateSendInputThenFetch ==
    /\ pc = "top"
    /\ running
    /\ BeginCycle
    /\ caught' = <<>>
    /\ pc' = "fetch"
    /\ i' = 1
    /\ UNCHANGED <<upload, config, running, last_message, raised>>

\* the send input is found
LocateSendInput ==
    /\ pc = "top"
    /\ running
    /\ BeginCycle
    /\ caught' = <<>>
    /\ pc' = "loop_listeners"
    /\ i' = 1
    /\ UNCHANGED <<upload, config, running, last_message, raised>>

\* A pass that also ends when stop() has cleared the flag.
PassEndsOrStopped(k, listeners) == k > Len(listeners) \/ ~running

\* A pass over a copy of the list made when the pass began: the listeners
\* registered during the pass are not counted.
PassEndsSnapshot(k, listeners) ==
    LET kind == IF pc = "loop_listeners" THEN "loop" ELSE "message"
        added == {j \in 1..Len(calls) : /\ calls[j].kind = kind
                                        /\ calls[j].outcome = "register"}
    IN  k > Len(listeners) - Cardinality(added)

\* for listener in <the list>: the loop is over when position k is past the
\* end of the list as it is now (the list is not copied)
PassEnds(k, listeners) == k > Len(listeners)

\* __process_loop_listeners(): one turn of its for loop, or its end
ProcessLoopListeners ==
    /\ pc = "loop_listeners"
    /\ IF PassEnds(i, on_loops)
       THEN /\ pc' = "fetch"
            /\ UNCHANGED <<running, i, calls, sent, errs, raised, on_loops>>
       ELSE \E outcome \in ListenerOutcomes, logout_ok \in BOOLEAN,
               fn \in LoopListeners :
              LET x == CallListener(Context, outcome, logout_ok)
              IN  /\ outcome = "register"
                        => Len(on_messages) + Len(on_loops) < MaxListeners
                  /\ on_loops' = IF outcome = "register"
                                 THEN Append(on_loops, fn) ELSE on_loops
                  /\ calls' = Append(calls, Call("loop", on_loops[i], <<>>, <<>>,
                                                 outcome))
                  /\ running' = x.running
                  /\ sent' = x.sent
                  /\ errs' = x.errs
                  /\ raised' = x.exc
                  /\ IF x.exc = NoException
                     THEN pc' = pc /\ i' = i + 1
                     ELSE pc' = "raised" /\ i' = i
    /\ UNCHANGED <<upload, commands, on_messages, command_prefix,
                   debug_exception, debug_traceback, disable_error_handling,
                   last_message, new_message_object, prev_text, caught>>

\* get_last_message() finds no message: CannotFindMessageError; continue
NoMessageFound ==
    /\ pc = "fetch"
    /\ pc' = "top"
    /\ caught' = Swallow(Context, "CannotFindMessageError").caught
    /\ UNCHANGED <<upload, config, running, last_message, new_message_object, i,
                   calls, sent, errs, raised, prev_text>>

\* get_last_message() returns the chat's last message
GetLastMessage(texts, senders) ==
    /\ pc = "fetch"
    /\ \E text \in texts, this_person \in senders :
          new_message_object' = <<Message(text, this_person)>>
    /\ pc' = "message_listeners"
    /\ i' = 1
    /\ UNCHANGED <<upload, config, running, last_message, calls, sent, errs,
                   raised, prev_text, caught>>

\* __process_message_listeners(new_message_object): one turn of its for
\* loop, or its end.  A CannotFindMessageError that leaves it is caught by
\* run() (continue); any other exception leaves run().
ProcessMessageListeners ==
    /\ pc = "message_listeners"
    /\ IF PassEnds(i, on_messages)
       THEN /\ pc' = "dispatch"
            /\ UNCHANGED <<running, i, calls, sent, errs, raised, caught,
                           on_messages>>
       ELSE \E outcome \in ListenerOutcomes, logout_ok \in BOOLEAN,
               fn \in MessageListeners :
              LET x == CallListener(Context, outcome, logout_ok)
              IN  /\ outcome = "register"
                        => Len(on_messages) + Len(on_loops) < MaxListeners
                  /\ on_messages' = IF outcome = "register"
                                    THEN Append(on_messages, fn)
                                    ELSE on_messages
                  /\ calls' = Append(calls, Call("message", on_messages[i],
                                                 <<>>, new_message_object,
                                                 outcome))
                  /\ running' = x.running
                  /\ sent' = x.sent
                  /\ errs' = x.errs
                  /\ IF x.exc = NoException
                     THEN /\ pc' = pc /\ i' = i + 1
                          /\ raised' = raised /\ caught' = caught
                     ELSE IF x.exc = "CannotFindMessageError"
                     THEN /\ pc' = "top" /\ i' = i /\ raised' = raised
                          /\ caught' = Swallow(x, x.exc).caught
                     ELSE /\ pc' = "raised" /\ i' = i
                          /\ raised' = x.exc /\ caught' = caught
    /\ UNCHANGED <<upload, commands, on_loops, command_prefix, debug_exception,
                   debug_traceback, disable_error_handling, last_message,
                   new_message_object, prev_text>>

\* What the rest of the cycle (lines 383-414) does with the fetched message:
\* the new last_message, the context after it and the command called.
Continue(last, x) == [last |-> last, x |-> x, call |-> <<>>]

\* run() without its prefix test: every text is taken for a command.
NoPrefixTest(new_message) == TRUE

\* A prefix test that passes over the messages the client sent itself.
HasPrefixFromOthers(new_message) ==
    /\ <<new_message[1]>> = command_prefix
    /\ ~new_message_object[1].this_person

\* new_message[0] == self.command_prefix, for a text that is not empty
HasPrefix(new_message) == <<new_message[1]>> = command_prefix

\* run() continuing without its "Command not found!".
SendNothing(x) == x

\* self.send_message("Command not found!") of run()
SendNotFound(x) == SendMessage(x, CommandNotFound)

\* arguments = command_message.split(): the command's name left in.
ArgumentsWithName(tokens) == tokens

\* arguments = command_message.split()[1:]
Arguments(tokens) == Tail(tokens)

\* The test of the except clause failing for every text.
NeverEmptyStr(new_message) == FALSE

\* new_message == ""
IsEmptyStr(new_message) == new_message = <<>>

\* The rest of the cycle for the fetched message_object.
Dispatch(message_object, outcome, logout_ok) ==
    LET new_message == message_object[1].contents
        command_message == Tail(new_message)
        tokens == Split(command_message)
    IN  IF message_object = <<>> THEN Continue(last_message, Context)
        ELSE IF new_message = last_message
        THEN Continue(last_message, Context)
        ELSE IF new_message = <<>>
        THEN \* new_message[0] raises IndexError
             IF IsEmptyStr(new_message)
             THEN Continue(new_message, Swallow(Context, "IndexError"))
             ELSE Continue(new_message, Raise(Context, "InvalidPrefixError"))
        ELSE IF ~HasPrefix(new_message)
        THEN Continue(new_message, Context)
        ELSE IF tokens = <<>>
        THEN \* command_message.split()[0] raises IndexError
             Continue(new_message,
                      SendNotFound(Swallow(Context, "IndexError")))
        ELSE IF ~HasCommand(commands, tokens[1])
        THEN Continue(new_message, SendNotFound(Context))
        ELSE LET function_name == Lookup(commands, tokens[1]).fn
                 arguments == Arguments(tokens)
             IN  [last |-> new_message,
                  x |-> ProcessCommands(Context, function_name, arguments,
                                        outcome, logout_ok),
                  call |-> <<Call("command", function_name, arguments,
                                  message_object,
                                  IF function_name = "help_menu"
                                  THEN "help_menu" ELSE outcome)>>]

\* The rest of the cycle after the message listeners.
DispatchMessage ==
    /\ pc = "dispatch"
    /\ \E outcome \in HandlerOutcomes, logout_ok \in BOOLEAN :
         LET d == Dispatch(new_message_object, outcome, logout_ok)
         IN  /\ last_message' = d.last
             /\ calls' = calls \o d.call
             /\ running' = d.x.running
             /\ sent' = d.x.sent
             /\ errs' = d.x.errs
             /\ caught' = d.x.caught
             /\ IF d.x.exc = NoException
                THEN pc' = "top" /\ raised' = raised
                ELSE pc' = "raised" /\ raised' = d.x.exc
    /\ UNCHANGED <<upload, config, new_message_object, i, prev_text>>

Cycle(texts, senders) ==
    \/ RunReturns
    \/ AwaitInput
    \/ LocateSendInput
    \/ ProcessLoopListeners
    \/ NoMessageFound
    \/ GetLastMessage(texts, senders)
    \/ ProcessMessageListeners
    \/ DispatchMessage

\* ------------------------------------------------------------ send_file()
\* upload.pc is where the call stands ("idle": no call is running, the
\* record is what the last call left), upload.steps the steps taken in the
\* browser, upload.raised the exception the call ended with.
UploadEnds(exception) == [upload EXCEPT !.pc = "idle", !.raised = exception]

UploadStep(step, next) ==
    [upload EXCEPT !.pc = next, !.steps = Append(@, step)]

\* The size test with the limit itself refused.
TooBigFromLimit(file_size) == file_size >= Limit

\* file_size > 64000000
TooBig(file_size) == file_size > Limit

\* send_file(file_path, file_type) up to its size test
SendFile(file_size, file_type) ==
    /\ upload.pc = "idle"
    /\ pc \in {"setup", "top"}
    /\ LET call == [pc |-> "attach", size |-> file_size, type |-> file_type,
                    steps |-> <<>>, raised |-> NoException]
       IN  upload' = IF TooBig(file_size)
                     THEN [call EXCEPT !.pc = "idle",
                                       !.raised = "FileTooBigError"]
                     ELSE call
    /\ UNCHANGED <<config, engine, pc, raised>>

\* the attach button is retrieved and clicked; before run() there is no
\* browser (self.__browser is None)
AttachFile ==
    /\ upload.pc = "attach"
    /\ IF pc = "setup" THEN upload' = UploadEnds("AttributeError")
       ELSE \E found \in BOOLEAN :
              upload' = IF found
                        THEN UploadStep("attach_file_button.click", "input")
                        ELSE UploadEnds("NoSuchElementException")
    /\ UNCHANGED <<config, engine, pc, raised>>

\* the upload input of the file type is retrieved and given the path
FileInput ==
    /\ upload.pc = "input"
    /\ IF upload.type \notin {"other", "img"}
       THEN upload' = UploadEnds("UnknownFileTypeError")
       ELSE \E found \in BOOLEAN :
              upload' = IF found
                        THEN UploadStep("file_input.send_keys", "send_button")
                        ELSE UploadEnds("NoSuchElementException")
    /\ UNCHANGED <<config, engine, pc, raised>>

\* the send button is waited for (sleep(0.5) while it is not found) and
\* clicked
SendButton ==
    /\ upload.pc = "send_button"
    /\ \E found \in BOOLEAN :
          upload' = IF found THEN UploadStep("send_button.click", "idle")
                    ELSE upload
    /\ UNCHANGED <<config, engine, pc, raised>>

\* --------------------------------------------------------- specifications
\* The registry and the dispatch of commands: a caller that registers and
\* removes commands, sets the prefix and may disable the error handling,
\* then runs the client.
Next ==
    \/ \E r \in Registrations : Command(r[1], r[2], r[3])
    \/ \E name \in CmdNames : RemoveCommand(name)
    \/ \E p \in Prefixes : SetCommandPrefix(p)
    \/ \E b \in BOOLEAN : SetDisableErrorHandling(b)
    \/ Run
    \/ Cycle(Texts, BOOLEAN)

Spec == Init /\ [][Next]_vars

\* The listeners and the error policy: a caller that registers listeners and
\* sets the three error flags, then runs the client.
NextListeners ==
    \/ \E fn \in MessageListeners : OnMessage(fn)
    \/ \E fn \in LoopListeners : OnLoop(fn)
    \/ \E b \in BOOLEAN : SetDebugException(b)
    \/ \E b \in BOOLEAN : SetDebugTraceback(b)
    \/ \E b \in BOOLEAN : SetDisableErrorHandling(b)
    \/ Run
    \/ Cycle(ListenerTexts, {FALSE})

SpecListeners == Init /\ [][NextListeners]_vars

\* send_file(): a caller that sends files of sizes around the limit, before
\* and after run() has opened the browser.
NextSendFile ==
    \/ \E file_size \in FileSizes, file_type \in FileTypes :
          SendFile(file_size, file_type)
    \/ AttachFile
    \/ FileInput
    \/ SendButton
    \/ Run

SpecSendFile == Init /\ [][NextSendFile]_vars

\* ------------------------------------------------------------------ claims
\* The text fetched in the current cycle.
Text == new_message_object[1].contents

Fetched == new_message_object # <<>>

LastCall == calls[Len(calls)]

\* The calls of one kind made in the current cycle, in order.
CallsOf(kind) == SelectSeq(calls, LAMBDA c : c.kind = kind)

\* The exceptions a callback's body raises.
RaisedInBody == {"Exception", "TypeError", "CannotFindMessageError"}

Silent ==
    ~disable_error_handling /\ ~debug_exception /\ ~debug_traceback

\* C1: when a successful fetch returns the same text as the successful fetch
\* before it, no message-listener is executed in the cycle of the second
\* fetch.
C1_ListenersOncePerText ==
    (Fetched /\ prev_text = <<Text>>) => CallsOf("message") = <<>>

\* C2: with disable_error_handling set, once a loop-listener, a
\* message-listener or a command handler has raised an exception, running is
\* false and run() has ended with that same exception (allowed here: with the
\* exception of the logout, when the logout of stop() itself fails).
C2_PropagateReraises ==
    (disable_error_handling /\ calls # <<>> /\ LastCall.outcome \in RaisedInBody)
        => /\ ~running
           /\ pc = "raised"
           /\ raised \in {LastCall.outcome, "NoSuchElementException"}

\* C3: with the three flags false, once a command handler has raised an
\* exception, the text sent is exactly "An unknown error occurred", running
\* is still true and the loop is at the top of its next cycle.
C3_SilentUnknownError ==
    (Silent /\ calls # <<>> /\ LastCall.kind = "command"
            /\ LastCall.outcome \in RaisedInBody)
        => (sent = <<UnknownError>> /\ running /\ pc = "top")

\* The message being dispatched was not the last one seen.
NewlySeen == Text # last_message

\* The prefix is one character (spec 3: commandPrefix: string(length 1)).
OneCharPrefix == Len(command_prefix) = 1

\* The whitespace-separated tokens of the text after the prefix.
Tokens == Split(Drop(Text, Len(command_prefix)))

FooBarBaz == Bang \o foo \o Sp \o bar \o Sp \o baz

\* C4: when a newly seen message is dispatched whose text is the (one
\* character) prefix followed by tokens of which the first is a registered
\* command name, exactly one call is made in that step: the command's handler,
\* with the remaining tokens in order as args ("!foo bar baz": <<bar, baz>>)
\* and the fetched message as second argument.
C4_HandlerGetsArgs ==
    [][ ( /\ pc = "dispatch" /\ NewlySeen /\ OneCharPrefix
          /\ StartsWith(Text, command_prefix)
          /\ Tokens # <<>>
          /\ HasCommand(commands, Tokens[1]) )
        => /\ Len(calls') = Len(calls) + 1
           /\ SubSeq(calls', 1, Len(calls)) = calls
           /\ calls'[Len(calls')].kind = "command"
           /\ calls'[Len(calls')].fn = Lookup(commands, Tokens[1]).fn
           /\ calls'[Len(calls')].args = Tail(Tokens)
           /\ calls'[Len(calls')].msg = new_message_object
           /\ (Text = FooBarBaz => calls'[Len(calls')].args = <<bar, baz>>)
      ]_vars

C4_Witness ==
    /\ pc = "top" /\ Fetched /\ Text = FooBarBaz
    /\ Len(calls) = 1
    /\ calls[1].kind = "command" /\ calls[1].fn = "h1"
    /\ calls[1].args = <<bar, baz>> /\ calls[1].outcome = "ok"
    /\ calls[1].msg = new_message_object

\* C5: in a cycle whose fetched text does not start with command_prefix (the
\* empty text included) no command handler is called and no
\* "Command not found!" is sent.
C5_NoPrefixNoCommand ==
    (Fetched /\ ~StartsWith(Text, command_prefix))
        => /\ CallsOf("command") = <<>>
           /\ \A k \in 1..Len(sent) : sent[k] # CommandNotFound

C5_Witness ==
    /\ pc = "top" /\ Fetched /\ Text = <<"h", "i">> /\ last_message = Text
    /\ command_prefix = Bang /\ HasCommand(commands, foo)
    /\ calls = <<>> /\ sent = <<>>

\* C6: when a newly seen message is dispatched that starts with the (one
\* character) prefix and has no first token after it, or one that is no
\* registered name, that step sends "Command not found!" once, calls nothing,
\* leaves running as it is and goes to the next cycle without raising.
C6_UnknownCommand ==
    [][ ( /\ pc = "dispatch" /\ NewlySeen /\ OneCharPrefix
          /\ StartsWith(Text, command_prefix)
          /\ (Tokens = <<>> \/ ~HasCommand(commands, Tokens[1])) )
        => /\ sent' = Append(sent, CommandNotFound)
           /\ calls' = calls
           /\ running' = running
           /\ pc' = "top"
           /\ raised' = raised
      ]_vars

C6_Witness ==
    /\ pc = "top" /\ Fetched /\ Text = Bang /\ last_message = Bang
    /\ sent = <<CommandNotFound>> /\ calls = <<>> /\ running

\* C7: for the names n the caller registers: a step command(n, h) leaves n
\* resolving to h, whatever it resolved to before, every name held once;
\* remove_command(n) of a present n leaves n resolving to nothing, of an
\* absent n (so a second remove_command(n)) raises CommandNotFoundError and
\* leaves the registry as it was; and dispatching the newly seen message
\* prefix + n calls the handler n resolves to, or nothing if n is absent.
C7_RegisterLookupRemove ==
    [][ /\ \A r \in Registrations :
             Command(r[1], r[2], r[3])
                => /\ HasCommand(commands', r[1])
                   /\ Lookup(commands', r[1]).fn = r[2]
                   /\ Cardinality(Names(commands')) = Len(commands')
        /\ \A n \in CmdNames :
             RemoveCommand(n)
                => IF HasCommand(commands, n)
                   THEN ~HasCommand(commands', n) /\ raised' = NoException
                   ELSE commands' = commands
                        /\ raised' = "CommandNotFoundError"
        /\ \A n \in CmdNames :
             (pc = "dispatch" /\ NewlySeen /\ OneCharPrefix
                              /\ Text = command_prefix \o n)
                => IF HasCommand(commands, n)
                   THEN /\ Len(calls') = Len(calls) + 1
                        /\ calls'[Len(calls')].kind = "command"
                        /\ calls'[Len(calls')].fn = Lookup(commands, n).fn
                   ELSE calls' = calls
      ]_vars

\* help registered again with h2: "!help" calls h2, not the built-in
C7_Witness ==
    /\ pc = "top" /\ Fetched /\ Text = Bang \o help
    /\ Len(calls) = 1 /\ calls[1].kind = "command" /\ calls[1].fn = "h2"

\* The built-in help was called with these many arguments in this cycle.
HelpCalled(n) ==
    /\ calls # <<>>
    /\ LastCall.kind = "command" /\ LastCall.fn = "help_menu"
    /\ Len(LastCall.args) = n

\* The names a line lists, commas and blanks being separators.
Listed(line) ==
    Split([k \in 1..Len(line) |-> IF line[k] = "," THEN " " ELSE line[k]])

RegisteredNames == [k \in 1..Len(commands) |-> commands[k].name]

\* C8 as claimed: "!help" without arguments sends a single line, which lists
\* the registered command names (only "help" when only the built-in is
\* registered).
C8_HelpSingleLine ==
    HelpCalled(0)
        => /\ Len(sent) = 1
           /\ Listed(sent[1]) = RegisteredNames

\* The first k registered names, each without the occurrences of the prefix
\* and followed by ", ".
RECURSIVE NameLine(_)
NameLine(k) ==
    IF k = 0 THEN <<>>
    ELSE NameLine(k - 1) \o Replace(commands[k].name, command_prefix)
         \o <<",", " ">>

\* C8 as amended: "!help" without arguments sends two lines: "List of
\* commands:", then one line that holds every registered name in
\* registration order, each with the occurrences of command_prefix removed
\* and followed by ", " ("help, " when only the built-in is registered).
C8_HelpTwoLines ==
    HelpCalled(0)
        => /\ Len(sent) = 2
           /\ sent[1] = <<"List of commands:">>
           /\ sent[2] = NameLine(Len(commands))
           /\ (Len(commands) = 1 => sent[2] = help \o <<",", " ">>)

C8_Witness ==
    /\ pc = "top" /\ HelpCalled(0)
    /\ RegisteredNames = <<help, bangfoo>>
    /\ sent = << <<"List of commands:">>,
                 help \o <<",", " ">> \o foo \o <<",", " ">> >>

\* C9: "!help a" with one argument a sends the help text of the command
\* named a when a is registered (stated here for the commands registered
\* with a help text), sends exactly "Command not found!" when no registered
\* name is a (stated here for the a that is no registered name even with the
\* prefix removed from the names), and in neither case gives an exception to
\* the error policy.
C9_HelpOneArgument ==
    HelpCalled(1)
        => LET a == LastCall.args[1]
           IN  /\ errs = <<>>
               /\ pc = "top"
               /\ (HasCommand(commands, a)
                      /\ Lookup(commands, a).help # None)
                     => sent = SplitLines(Lookup(commands, a).help)
               /\ (\A k \in 1..Len(commands) :
                      a # Replace(commands[k].name, command_prefix))
                     => sent = <<CommandNotFound>>

\* The callables of the message-listener calls of this cycle, in order.
MessageCalled ==
    [k \in 1..Len(CallsOf("message")) |-> CallsOf("message")[k].fn]

\* The pass over the message listeners has run and is over.
MessagePassOver ==
    Fetched /\ pc \in {"dispatch", "top", "raised", "returned"}

\* C10 as claimed: once the message listeners have been run for a message,
\* every registered message-listener has been called, once per registration
\* and in registration order, whatever the listeners raised and whatever the
\* error mode (stated here for the listeners that do not call stop()).
C10_AllListenersRun ==
    (MessagePassOver /\ \A k \in 1..Len(calls) : calls[k].outcome # "stop")
        => MessageCalled = on_messages

\* C10 as amended: the message listeners are called in registration order,
\* once per registration; with disable_error_handling false (Silent,
\* EchoException, EchoTraceback) all of them are called whatever they raise;
\* with disable_error_handling set the pass ends at the first listener that
\* raises.
C10_AllListenersRunUnlessPropagate ==
    /\ Len(MessageCalled) <= Len(on_messages)
    /\ MessageCalled = SubSeq(on_messages, 1, Len(MessageCalled))
    /\ (MessagePassOver /\ ~disable_error_handling)
          => MessageCalled = on_messages
    /\ (MessagePassOver /\ MessageCalled # on_messages)
          => /\ disable_error_handling
             /\ CallsOf("message")[Len(MessageCalled)].outcome # "ok"

C10_Witness ==
    /\ pc = "dispatch" /\ ~disable_error_handling /\ debug_traceback
    /\ on_messages = <<"l1", "l1">>
    /\ MessageCalled = <<"l1", "l1">>
    /\ CallsOf("message")[1].outcome = "Exception"

\* The callables of the loop-listener calls of this cycle, in order.
LoopCalled == [k \in 1..Len(CallsOf("loop")) |-> CallsOf("loop")[k].fn]

\* run() stands between two cycles, or has ended.
CycleOver == pc \in {"top", "returned", "raised"}

Called == Len(calls') = Len(calls) + 1

\* How far run() is from its end: the steps of the cycle still ahead, and in
\* a pass the listeners still to call plus those that may still be registered.
StepsLeft ==
    LET room == MaxListeners - Len(on_messages) - Len(on_loops)
        ahead(listeners) == (Len(listeners) + 2 - i) + 2 * room
        width == 3 * MaxListeners + 3
    IN  IF pc = "loop_listeners" THEN 4 * width + ahead(on_loops)
        ELSE IF pc = "fetch" THEN 4 * width
        ELSE IF pc = "message_listeners" THEN 2 * width + ahead(on_messages)
        ELSE IF pc = "dispatch" THEN 2 * width
        ELSE IF pc = "top" THEN 1
        ELSE 0

C12_SizeCheckInclusive ==
    /\ (upload.raised = "FileTooBigError") <=> (upload.size > 64000000)
    /\ upload.size = 64000001 => upload.raised = "FileTooBigError"
    /\ upload.size = 64000000 => upload.raised # "FileTooBigError"
    /\ upload.raised = "FileTooBigError"
          => (upload.steps = <<>> /\ upload.pc = "idle")
    /\ upload.steps # <<>> => upload.size <= 64000000
    /\ upload.raised = "UnknownFileTypeError" => upload.size <= 64000000

\* a file of exactly the limit has been sent
C12_Witness ==
    /\ upload.size = 64000000 /\ upload.pc = "idle"
    /\ upload.raised = NoException
    /\ upload.steps = <<"attach_file_button.click", "file_input.send_keys",
                        "send_button.click">>

\* The exceptions that reach __handle_error.
Handled == {"Exception", "CannotFindMessageError", "NoSuchElementException"}

C14_OnlyTwoSwallowed ==
    /\ (pc = "top" /\ caught = <<"NoSuchElementException">>)
          => (calls = <<>> /\ sent = <<>> /\ errs = <<>>)
    /\ (pc = "top" /\ ~Fetched /\ caught = <<"CannotFindMessageError">>)
          => (CallsOf("message") = <<>> /\ CallsOf("command") = <<>>)
    /\ (caught # <<>> /\ sent = <<>> /\ errs = <<>>)
          => \/ caught = <<"NoSuchElementException">>
             \/ (caught = <<"CannotFindMessageError">> /\ ~Fetched)

\* C14 as amended.  The step that finds no send input: nothing called, sent
\* or given to the error policy in that cycle, last_message and running as
\* they were, back to the top.  The step that finds no message: the same,
\* for what follows the loop-listeners of that cycle.  The other exceptions
\* run() catches and drops: the IndexError of a newly seen empty text (the
\* cycle ends, nothing is sent), the IndexError of a newly seen text that has
\* nothing after its prefix ("Command not found!" is sent), and, under
\* disable_error_handling, the CannotFindMessageError of a message-listener.
C14_SilentRetries ==
    [][ /\ (pc = "top" /\ pc' = "top")
              => /\ calls' = <<>> /\ sent' = <<>> /\ errs' = <<>>
                 /\ new_message_object' = <<>>
                 /\ caught' = <<"NoSuchElementException">>
                 /\ UNCHANGED <<last_message, running, raised>>
        /\ (pc = "fetch" /\ pc' = "top")
              => /\ CallsOf("message") = <<>> /\ CallsOf("command") = <<>>
                 /\ new_message_object' = <<>>
                 /\ caught' = Append(caught, "CannotFindMessageError")
                 /\ UNCHANGED <<calls, sent, errs, last_message, running,
                                raised>>
        /\ (Len(caught') > Len(caught) /\ pc \notin {"top", "fetch"})
              => \/ /\ pc = "dispatch" /\ NewlySeen /\ Text = <<>>
                    /\ caught' = Append(caught, "IndexError")
                    /\ pc' = "top" /\ last_message' = Text
                    /\ UNCHANGED <<calls, sent, errs, running, raised>>
                 \/ /\ pc = "dispatch" /\ NewlySeen /\ Text # <<>>
                    /\ Split(Tail(Text)) = <<>>
                    /\ caught' = Append(caught, "IndexError")
                    /\ sent' = Append(sent, CommandNotFound)
                    /\ pc' = "top" /\ calls' = calls
                 \/ /\ pc = "message_listeners" /\ disable_error_handling
                    /\ Called
                    /\ calls'[Len(calls')].outcome = "CannotFindMessageError"
                    /\ caught' = Append(caught, "CannotFindMessageError")
                    /\ errs' = Append(errs, "CannotFindMessageError")
                    /\ pc' = "top" /\ ~running' /\ raised' = raised
      ]_vars

\* after "!foo bar baz" was dispatched, a cycle finds no message
C14_Witness ==
    /\ pc = "top" /\ running /\ ~Fetched
    /\ caught = <<"CannotFindMessageError">>
    /\ prev_text = <<FooBarBaz>> /\ last_message = FooBarBaz
    /\ HasCommand(commands, foo)
    /\ calls = <<>> /\ sent = <<>> /\ errs = <<>>

\* The place of a kind of callback in a cycle.
Rank(kind) == IF kind = "loop" THEN 1 ELSE IF kind = "message" THEN 2 ELSE 3

\* C15: in every cycle the calls come in the order loop-listeners,
\* message-listeners, command handler; while the loop-listeners run nothing
\* has been fetched, and once a message is fetched every loop-listener has
\* been called; a command handler is called only after every message-listener
\* was called with that same message; at most one command handler is called
\* in a cycle, and when it has been called the cycle is over (run() is at the
\* top of its loop or has ended) before anything of a next cycle happens.
C15_CycleOrder ==
    /\ \A j, k \in 1..Len(calls) :
          j < k => Rank(calls[j].kind) <= Rank(calls[k].kind)
    /\ pc = "loop_listeners" => (~Fetched /\ CallsOf("loop") = calls)
    /\ Fetched => LoopCalled = on_loops
    /\ Len(CallsOf("command")) <= 1
    /\ CallsOf("command") # <<>>
          => /\ Fetched
             /\ MessageCalled = on_messages
             /\ \A k \in 1..Len(calls) :
                   calls[k].kind # "loop" => calls[k].msg = new_message_object
             /\ LastCall.kind = "command"
             /\ CycleOver

\* one loop listener, one message listener, then the built-in help
C15_Witness ==
    /\ pc = "top" /\ Len(calls) = 3
    /\ calls[1].kind = "loop" /\ calls[1].fn = "k1"
    /\ calls[2].kind = "message" /\ calls[2].fn = "l2"
    /\ calls[3].kind = "command" /\ calls[3].fn = "help_menu"

\* C16: whenever a message-listener or a command handler has been called for
\* the fetched message, last_message is already the text of that message.
C16_LastSeenSetFirst ==
    (Fetched /\ \E k \in 1..Len(calls) : calls[k].kind \in {"message", "command"})
        => last_message = Text

\* C17: a command handler that cannot be called with two arguments gets the
\* report of the dispatch error and nothing is given to the error policy;
\* every exception raised inside the body of a handler that was called is
\* given to the error policy, and that report is not sent.
C17_SignatureVsRuntime ==
    (calls # <<>> /\ LastCall.kind = "command")
        => /\ LastCall.outcome = "signature"
                 => (sent = <<BadSignature>> /\ errs = <<>>)
           /\ LastCall.outcome \in RaisedInBody
                 => /\ errs = <<LastCall.outcome>>
                    /\ \A k \in 1..Len(sent) : sent[k] # BadSignature

FromThisClient == new_message_object[1].this_person

\* C19: what the dispatch of the fetched message does (last_message, the
\* lines sent, the exceptions handled, running, the handler called and its
\* arguments) is what the dispatch of the same text from the other sender
\* would do; the handler gets the message as it was fetched.  So a newly
\* seen text of this client itself that is the (one character) prefix and a
\* registered name is dispatched to that command's handler.
C19_SenderBlind ==
    [][ /\ pc = "dispatch"
              => \E outcome \in HandlerOutcomes, logout_ok \in BOOLEAN :
                   LET d == Dispatch(<<Message(Text, ~FromThisClient)>>,
                                     outcome, logout_ok)
                   IN  /\ last_message' = d.last
                       /\ sent' = d.x.sent
                       /\ errs' = d.x.errs
                       /\ running' = d.x.running
                       /\ raised' = IF d.x.exc = NoException THEN raised
                                    ELSE d.x.exc
                       /\ Len(calls') = Len(calls) + Len(d.call)
                       /\ d.call # <<>>
                             => /\ calls'[Len(calls')].fn = d.call[1].fn
                                /\ calls'[Len(calls')].args = d.call[1].args
                                /\ calls'[Len(calls')].outcome
                                      = d.call[1].outcome
                                /\ calls'[Len(calls')].msg = new_message_object
        /\ ( /\ pc = "dispatch" /\ FromThisClient /\ NewlySeen
             /\ OneCharPrefix /\ StartsWith(Text, command_prefix)
             /\ Tokens # <<>> /\ HasCommand(commands, Tokens[1]) )
              => /\ Called
                 /\ calls'[Len(calls')].kind = "command"
                 /\ calls'[Len(calls')].fn = Lookup(commands, Tokens[1]).fn
                 /\ calls'[Len(calls')].args = Tail(Tokens)
      ]_vars

\* "!foo bar baz", sent by this client, has been dispatched to foo's handler
C19_Witness ==
    /\ pc = "top" /\ Fetched /\ FromThisClient /\ Text = FooBarBaz
    /\ Len(calls) = 1 /\ calls[1].kind = "command" /\ calls[1].fn = "h2"
    /\ calls[1].args = <<bar, baz>>
    /\ calls[1].msg = <<Message(FooBarBaz, TRUE)>>

\* C20: a listener pass goes over the list as it is, not as it was when the
\* pass began.  A listener that registers a listener during the pass of its
\* kind puts it at the end of the list, ahead of the pass, which goes on; and
\* the pass hands over to the next step of the cycle only when every listener
\* of the list, those registered during the pass included, has been called:
\* each registration makes the pass one call longer.
C20_LiveListenerList ==
    [][ /\ (pc = "message_listeners" /\ on_messages' # on_messages)
              => /\ Called /\ calls'[Len(calls')].outcome = "register"
                 /\ Len(on_messages') = Len(on_messages) + 1
                 /\ SubSeq(on_messages', 1, Len(on_messages)) = on_messages
                 /\ pc' = pc /\ i' = i + 1 /\ i' <= Len(on_messages')
        /\ (pc = "loop_listeners" /\ on_loops' # on_loops)
              => /\ Called /\ calls'[Len(calls')].outcome = "register"
                 /\ Len(on_loops') = Len(on_loops) + 1
                 /\ SubSeq(on_loops', 1, Len(on_loops)) = on_loops
                 /\ pc' = pc /\ i' = i + 1 /\ i' <= Len(on_loops')
        /\ (pc = "message_listeners" /\ pc' = "dispatch")
              => MessageCalled = on_messages
        /\ (pc = "loop_listeners" /\ pc' = "fetch")
              => LoopCalled = on_loops
      ]_vars

\* l1 registers l2 during the pass, and l2 is called in that same pass
C20_Witness ==
    /\ pc = "dispatch" /\ on_messages = <<"l1", "l2">> /\ on_loops = <<>>
    /\ Len(calls) = 2
    /\ calls[1].kind = "message" /\ calls[1].fn = "l1"
    /\ calls[1].outcome = "register"
    /\ calls[2].kind = "message" /\ calls[2].fn = "l2"
    /\ calls[2].outcome = "ok"

====
